---- MODULE Spec2Model ----
(***************************************************************************)
(* Model of wms_tester.py: the dispatch loop of main() with the worker     *)
(* threads WMSTestThread, and the bounding-box generators built on Box.    *)
(*                                                                         *)
(* Spec     the dispatch engine: main()'s submit/drain loop, the           *)
(*          semaphore, the completion queue and the worker threads.        *)
(* SpecBox  the box generators: Box.generateRandomSubbox and the walking   *)
(*          and zooming tests that evolve a bounding box.                  *)
(***************************************************************************)
EXTENDS Integers, Sequences, FiniteSets, TLC

(***************************************************************************)
(* Bounds of the model and constants of the program.                       *)
(***************************************************************************)
MAX_CONNECTIONS == 256

\* largest value of --threads explored (0 stands for any non-positive value)
MaxThreads == 2
\* largest number of tests in a batch explored besides the long run
MaxTests == 4
\* how many probes beyond MAX_CONNECTIONS one cell of the long run holds
MaxOver == 1
\* how many worker threads may have released their slot and not yet ended
MaxLinger == 1

\* largest maxfractionaldigits explored; coordinates are kept in fixed point,
\* Unit steps for 1.0
MaxDigits == 1
\* the coordinates of a spatial extent are whole numbers in -ExtentMin..ExtentMax
ExtentMin == 1
ExtentMax == 2
\* largest minstepwidth / maxstepwidth explored
MaxStepWidth == 2
\* largest minboxwidth / maxboxwidth explored
MaxBoxWidth == 2
\* largest magnitude of an explicitly given step
MaxExplicit == 1
\* longest sequence of walking or zooming steps (count - 1)
MaxSteps == 2
\* largest number of layers of a batch that is built
MaxLayers == 3

VARIABLES
    \* ---- command line (fixed by Init)
    dry,              \* args.dry
    outputformat,     \* args.outputformat: "csv", "bboxes" or "none" (not given)
    argthreads,       \* args.threads
    argcount,         \* args.count
    cells,            \* len(testclasses) * len(layers)
    \* ---- main()
    pc,               \* position of the main thread
    next,             \* flat index of the next test of tests[i][j][c]
    threadpool,       \* value of the Semaphore
    connectioncount,
    session,          \* the shared Session main() currently holds
    sessioncount,     \* number of Session() objects created so far
    closed,           \* the shared sessions on which close() was called
    testscompleted,   \* the SimpleQueue
    output,           \* per test id, the number of lines outputTest has written
    bboxlines,        \* number of lines written in "bboxes" format
    crashedon,        \* the queue entry on which outputTest raised in main()
    \* ---- WMSTestThread
    threads,          \* the started worker threads that hold their slot
    lingering,        \* the threads that released their slot and are still alive
    \* ---- history of the run
    enqueued,         \* the test ids in the order of their put() on the queue
    reported,         \* the test ids in the order outputTest was called on them
    \* ---- Box and the generator tests
    gpc,              \* "new": no bounding box generated yet, "ready", "failed"
    testclass,        \* id of the test class
    spatialextent,
    boundingbox,
    minwidth,
    minheight,
    maxfractionaldigits,
    minstepwidth,
    maxstepwidth,
    minboxwidth,
    maxboxwidth,
    returned,         \* the Box the last call of generateRandomSubbox returned
    lastcall,         \* the last call made on the test: arguments and outcome
    steps,            \* number of walking / zooming calls made so far
    \* ---- main(): the building of tests[i] for one test class
    bpc,              \* "build" while tests[i] is filled, "failed" after a raise
    tests,            \* tests[i]: per layer index j the list of the tests built
    boxes             \* the Box objects the tests refer to, by object identity

dvars == <<dry, outputformat, argthreads, argcount, cells, pc, next, threadpool,
           connectioncount, session, sessioncount, closed, testscompleted,
           output, bboxlines, crashedon, threads, lingering, enqueued,
           reported>>
gvars == <<gpc, testclass, spatialextent, boundingbox, minwidth, minheight,
           maxfractionaldigits, minstepwidth, maxstepwidth, minboxwidth,
           maxboxwidth, returned, lastcall, steps>>
bvars == <<bpc, tests, boxes>>
vars == <<dvars, gvars, bvars>>

(***************************************************************************)
(* Values                                                                  *)
(***************************************************************************)
NoTest == [id |-> -1, result |-> "none"]
\* test.result: None, a WMSTestResult without response, one with a response
NoResult == "None"
DryResult == "request"
Response == "response"

SharedSession(n) == <<"shared", n>>
PrivateSession(t) == <<"private", t>>
NoSession == <<"none", 0>>

\* count = args.count if args.count > 0 else 1
count == IF argcount > 0 THEN argcount ELSE 1
\* as SemaphoreValue, one slot more than asked for
SemaphoreWide == IF argthreads > 0 THEN argthreads + 1 ELSE 2

\* Semaphore(args.threads) if args.threads > 0 else Semaphore()
SemaphoreValue == IF argthreads > 0 THEN argthreads ELSE 1
\* number of tests in tests[i][j][c]
NumTests == cells * count

\* threading.active_count() - 1
ActiveWorkers == Cardinality(DOMAIN threads) + lingering

(***************************************************************************)
(* IOTools.outputTest                                                      *)
(***************************************************************************)
\* does outputTest write its line before it returns or raises?
OutputTestWrites(fmt, result) ==
    IF fmt = "csv"
    THEN result # NoResult        \* None.getCSV() raises before the line
    ELSE result # DryResult       \* result.response.elapsed raises on None

\* does outputTest raise?  test.result.close() is response.close()
OutputTestRaises(fmt, result) == result # Response

(***************************************************************************)
(* Dispatch: Init                                                          *)
(***************************************************************************)
Counts == (0..MaxTests) \cup {MAX_CONNECTIONS + MaxOver}

\* Box(lowerx, lowery, upperx, uppery)
Box(lx, ly, ux, uy) == [lowerx |-> lx, lowery |-> ly, upperx |-> ux, uppery |-> uy]
NoBox == Box(0, 0, 0, 0)
NoCall == [op |-> "none", xstep |-> 0, ystep |-> 0, raised |-> FALSE]

\* the generator variables while the dispatch engine is explored
GenIdle ==
    /\ gpc = "off"
    /\ testclass = "none"
    /\ spatialextent = NoBox
    /\ boundingbox = NoBox
    /\ minwidth = 0
    /\ minheight = 0
    /\ maxfractionaldigits = 0
    /\ minstepwidth = 0
    /\ maxstepwidth = 0
    /\ minboxwidth = 0
    /\ maxboxwidth = 0
    /\ returned = NoBox
    /\ lastcall = NoCall
    /\ steps = 0

\* the batch variables while the batch building is not explored
BatchIdle ==
    /\ bpc = "off"
    /\ tests = <<>>
    /\ boxes = <<>>

Init ==
    /\ dry \in BOOLEAN
    /\ outputformat \in {"csv", "bboxes", "none"}
    /\ argthreads \in 0..MaxThreads
    /\ argcount \in Counts
    /\ cells \in 1..MaxTests
    \* the long run is explored with sequential dispatch and up to two cells
    /\ \/ NumTests <= MaxTests
       \/ argcount > MaxTests /\ cells <= 2 /\ argthreads = 1
    /\ pc = "for"
    /\ next = 0
    /\ threadpool = SemaphoreValue
    /\ connectioncount = 0
    /\ session = SharedSession(0)
    /\ sessioncount = 1
    /\ closed = {}
    /\ testscompleted = <<>>
    /\ output = <<>>
    /\ bboxlines = 0
    /\ crashedon = NoTest
    /\ threads = <<>>
    /\ lingering = 0
    /\ enqueued = <<>>
    /\ reported = <<>>
    /\ GenIdle
    /\ BatchIdle

(***************************************************************************)
(* main(): the submit / drain loop                                         *)
(***************************************************************************)
\* threadpool.acquire() returns once the semaphore is positive
AcquireBroken(sem) == TRUE
CanAcquire(sem) == sem > 0

\* threadpool.acquire(); connectioncount += 1; WMSTestThread(...).start();
\* renewal of the session at MAX_CONNECTIONS
Launch ==
    /\ pc = "for"
    /\ outputformat # "bboxes"
    /\ next < NumTests
    /\ CanAcquire(threadpool)
    /\ threadpool' = threadpool - 1
    /\ LET cc == connectioncount + 1 IN
       /\ threads' = (next :> [pc |-> "execute",
                               session |-> session,
                               keepalive |-> (cc = MAX_CONNECTIONS),
                               local |-> session,
                               sends |-> 0,
                               first |-> "none",
                               retried |-> NoSession,
                               closes |-> FALSE,
                               result |-> NoResult]) @@ threads
       /\ IF cc = MAX_CONNECTIONS
          THEN /\ session' = SharedSession(session[2] + 1)
               /\ sessioncount' = sessioncount + 1
               /\ connectioncount' = 0
          ELSE /\ connectioncount' = cc
               /\ UNCHANGED <<session, sessioncount>>
    /\ next' = next + 1
    /\ pc' = "drain"
    /\ UNCHANGED <<dry, outputformat, argthreads, argcount, cells, closed,
                   testscompleted, output, bboxlines, crashedon, lingering>>
    /\ UNCHANGED <<enqueued, reported>>
    /\ UNCHANGED <<gvars, bvars>>

\* iot.outputLine(tests[i][j][0].boundingbox.__str__()) for one cell
BBoxLine ==
    /\ pc = "for"
    /\ outputformat = "bboxes"
    /\ next < NumTests
    /\ bboxlines' = bboxlines + 1
    /\ next' = next + count
    /\ UNCHANGED <<dry, outputformat, argthreads, argcount, cells, pc, threadpool,
                   connectioncount, session, sessioncount, closed, testscompleted,
                   output, crashedon, threads, lingering>>
    /\ UNCHANGED <<enqueued, reported>>
    /\ UNCHANGED <<gvars, bvars>>

\* number of lines outputTest has written for test t
Lines(t) == IF t \in DOMAIN output THEN output[t] ELSE 0

\* iot.outputTest(testscompleted.get(), args.outputformat), then pc becomes
\* after, unless outputTest raises and main() dies
OutputHead(after) ==
    LET t == Head(testscompleted) IN
    /\ testscompleted' = Tail(testscompleted)
    /\ reported' = Append(reported, t.id)
    /\ output' = IF OutputTestWrites(outputformat, t.result)
                 THEN (t.id :> Lines(t.id) + 1) @@ output ELSE output
    /\ IF OutputTestRaises(outputformat, t.result)
       THEN pc' = "crashed" /\ crashedon' = t
       ELSE pc' = after /\ UNCHANGED crashedon

\* while not testscompleted.empty(): outputTest(testscompleted.get())
DrainOne ==
    /\ pc = "drain"
    /\ testscompleted # <<>>
    /\ OutputHead("drain")
    /\ UNCHANGED <<dry, outputformat, argthreads, argcount, cells, next, threadpool,
                   connectioncount, session, sessioncount, closed, bboxlines,
                   threads, lingering>>
    /\ UNCHANGED enqueued
    /\ UNCHANGED <<gvars, bvars>>

DrainEmpty ==
    /\ pc = "drain"
    /\ testscompleted = <<>>
    /\ pc' = "for"
    /\ UNCHANGED <<dry, outputformat, argthreads, argcount, cells, next, threadpool,
                   connectioncount, session, sessioncount, closed, testscompleted,
                   output, bboxlines, crashedon, threads, lingering>>
    /\ UNCHANGED <<enqueued, reported>>
    /\ UNCHANGED <<gvars, bvars>>

\* the for loops are exhausted; while active_count() > 1 or not empty()
WhileCheck ==
    /\ \/ pc = "for" /\ next >= NumTests
       \/ pc = "while"
    /\ pc' = IF ActiveWorkers > 0 \/ testscompleted # <<>> THEN "get" ELSE "done"
    /\ UNCHANGED <<dry, outputformat, argthreads, argcount, cells, next, threadpool,
                   connectioncount, session, sessioncount, closed, testscompleted,
                   output, bboxlines, crashedon, threads, lingering>>
    /\ UNCHANGED <<enqueued, reported>>
    /\ UNCHANGED <<gvars, bvars>>

\* outputTest(testscompleted.get()); sleep(1): get() blocks on an empty queue
TailGet ==
    /\ pc = "get"
    /\ testscompleted # <<>>
    /\ OutputHead("while")
    /\ UNCHANGED <<dry, outputformat, argthreads, argcount, cells, next, threadpool,
                   connectioncount, session, sessioncount, closed, bboxlines,
                   threads, lingering>>
    /\ UNCHANGED enqueued
    /\ UNCHANGED <<gvars, bvars>>

(***************************************************************************)
(* WMSTestThread.run and WMSTest.execute                                   *)
(***************************************************************************)
Transport == {"response", "busy", "error"}

\* as IsBusy, every exception of send taken for the busy signal
IsBusyAny(answer) == answer # "response"

\* e.__str__().__contains__("busy") for the exception e of a send
IsBusy(answer) == answer = "busy"

SetThread(t, rec) == threads' = [threads EXCEPT ![t] = rec]

\* execute(): createRequest, the dry branch, or the first session.send
Execute(t) ==
    /\ t \in DOMAIN threads
    /\ threads[t].pc = "execute"
    /\ LET w == threads[t] IN
       IF dry
       THEN /\ SetThread(t, [w EXCEPT !.pc = "close", !.result = DryResult])
            /\ UNCHANGED sessioncount
       ELSE IF w.session = NoSession
       THEN \* session.send on None raises; the message does not hold "busy"
            /\ SetThread(t, [w EXCEPT !.pc = "close"])
            /\ UNCHANGED sessioncount
       ELSE \* session = Session(); session.send(r); session.close()
            /\ sessioncount' = sessioncount + 1
            /\ \E answer \in Transport :
                 IF answer = "response"
                 THEN SetThread(t, [w EXCEPT !.pc = "close", !.sends = 1,
                                             !.first = answer,
                                             !.local = NoSession,
                                             !.result = Response])
                 ELSE IF IsBusy(answer)
                 THEN SetThread(t, [w EXCEPT !.pc = "retry", !.sends = 1,
                                             !.first = answer,
                                             !.local = PrivateSession(t)])
                 ELSE SetThread(t, [w EXCEPT !.pc = "close", !.sends = 1,
                                             !.first = answer,
                                             !.local = PrivateSession(t)])
    /\ UNCHANGED <<dry, outputformat, argthreads, argcount, cells, pc, next,
                   threadpool, connectioncount, session, closed, testscompleted,
                   output, bboxlines, crashedon, lingering>>
    /\ UNCHANGED <<enqueued, reported>>
    /\ UNCHANGED <<gvars, bvars>>

\* except: "busy" in the message: sleep(5); session.send(r) once more
Retry(t) ==
    /\ t \in DOMAIN threads
    /\ threads[t].pc = "retry"
    /\ LET w == threads[t] IN
       \E answer \in Transport :
           IF answer = "response"
           THEN SetThread(t, [w EXCEPT !.pc = "close", !.sends = 2,
                                       !.retried = w.local,
                                       !.result = Response])
           ELSE SetThread(t, [w EXCEPT !.pc = "close", !.sends = 2,
                                       !.retried = w.local])
    /\ UNCHANGED <<dry, outputformat, argthreads, argcount, cells, pc, next,
                   threadpool, connectioncount, session, sessioncount, closed,
                   testscompleted, output, bboxlines, crashedon, lingering>>
    /\ UNCHANGED <<enqueued, reported>>
    /\ UNCHANGED <<gvars, bvars>>

\* if not self.keepalive: self.session.close()
CloseSession(t) ==
    /\ t \in DOMAIN threads
    /\ threads[t].pc = "close"
    /\ closed' = IF threads[t].keepalive THEN closed
                 ELSE closed \cup {threads[t].session}
    /\ SetThread(t, [threads[t] EXCEPT !.pc = "put",
                                       !.closes = ~threads[t].keepalive])
    /\ UNCHANGED <<dry, outputformat, argthreads, argcount, cells, pc, next,
                   threadpool, connectioncount, session, sessioncount,
                   testscompleted, output, bboxlines, crashedon, lingering>>
    /\ UNCHANGED <<enqueued, reported>>
    /\ UNCHANGED <<gvars, bvars>>

\* as QueuePut, the entry put in front of the entries waiting
QueuePutFront(queue, entry) == <<entry>> \o queue

\* SimpleQueue.put: the entry is the last one that get() will return
QueuePut(queue, entry) == Append(queue, entry)

\* self.testscompleted.put(self.test)
Put(t) ==
    /\ t \in DOMAIN threads
    /\ threads[t].pc = "put"
    /\ testscompleted' = QueuePut(testscompleted,
                                  [id |-> t, result |-> threads[t].result])
    /\ enqueued' = Append(enqueued, t)
    /\ SetThread(t, [threads[t] EXCEPT !.pc = "release"])
    /\ UNCHANGED <<dry, outputformat, argthreads, argcount, cells, pc, next,
                   threadpool, connectioncount, session, sessioncount, closed,
                   output, bboxlines, crashedon, lingering>>
    /\ UNCHANGED reported
    /\ UNCHANGED <<gvars, bvars>>

\* as Release, run() ending without threadpool.release()
ReleaseForgotten(t) ==
    /\ t \in DOMAIN threads
    /\ threads[t].pc = "release"
    /\ lingering < MaxLinger
    /\ threads' = [u \in DOMAIN threads \ {t} |-> threads[u]]
    /\ lingering' = lingering + 1
    /\ UNCHANGED <<dry, outputformat, argthreads, argcount, cells, pc, next,
                   threadpool, connectioncount, session, sessioncount, closed,
                   testscompleted, output, bboxlines, crashedon>>
    /\ UNCHANGED <<enqueued, reported>>
    /\ UNCHANGED <<gvars, bvars>>

\* self.threadpool.release(); run() has not returned yet
Release(t) ==
    /\ t \in DOMAIN threads
    /\ threads[t].pc = "release"
    /\ lingering < MaxLinger
    /\ threadpool' = threadpool + 1
    /\ threads' = [u \in DOMAIN threads \ {t} |-> threads[u]]
    /\ lingering' = lingering + 1
    /\ UNCHANGED <<dry, outputformat, argthreads, argcount, cells, pc, next,
                   connectioncount, session, sessioncount, closed, testscompleted,
                   output, bboxlines, crashedon>>
    /\ UNCHANGED <<enqueued, reported>>
    /\ UNCHANGED <<gvars, bvars>>

\* run() returns and the thread is no longer counted by active_count()
ThreadEnd ==
    /\ lingering > 0
    /\ lingering' = lingering - 1
    /\ UNCHANGED <<dry, outputformat, argthreads, argcount, cells, pc, next,
                   threadpool, connectioncount, session, sessioncount, closed,
                   testscompleted, output, bboxlines, crashedon, threads>>
    /\ UNCHANGED <<enqueued, reported>>
    /\ UNCHANGED <<gvars, bvars>>

Worker(t) == Execute(t) \/ Retry(t) \/ CloseSession(t) \/ Put(t) \/ Release(t)

Next ==
    \/ Launch
    \/ BBoxLine
    \/ DrainOne
    \/ DrainEmpty
    \/ WhileCheck
    \/ TailGet
    \/ \E t \in DOMAIN threads : Worker(t)
    \/ ThreadEnd

Spec == Init /\ [][Next]_vars

(***************************************************************************)
(* Properties of the dispatch engine                                       *)
(***************************************************************************)
\* the tests handed to a worker thread so far
Launched == IF outputformat = "bboxes" THEN {} ELSE 0..(next - 1)

\* the workers that were started and have not released their slot
InFlight == DOMAIN threads

\* main() has ended (normally or by an exception) and all workers have ended
RunOver == pc \in {"done", "crashed"} /\ ActiveWorkers = 0

\* C1: with --threads k >= 1, at most k started workers hold an admission
\* slot in any reachable state.
C1_AtMostKInFlight ==
    argthreads >= 1 => Cardinality(InFlight) <= argthreads

\* k workers are in flight and main() waits in acquire() with tests left
C1_Witness ==
    /\ argthreads = 2
    /\ Cardinality(InFlight) = 2
    /\ pc = "for" /\ next < NumTests /\ threadpool = 0

\* C2: when the run is over, every test handed to a worker has been written
\* by outputTest exactly once, whatever the outcomes of the probes.
C2_ReportedExactlyOnce ==
    RunOver => \A t \in Launched : Lines(t) = 1

\* C3: main() never waits in the blocking get() of the tail loop on an empty
\* queue when no worker is left that will still put its test.
C3_NeverStuckOnGet ==
    ~ ( /\ pc = "get"
        /\ testscompleted = <<>>
        /\ \A t \in DOMAIN threads : threads[t].pc = "release" )

\* C4: a probe that ended without a result (its send raised) never stops
\* main(): draining its queue entry does not end the submit/drain loop.
C4_FailureDoesNotAbort ==
    ~ (pc = "crashed" /\ ~dry /\ crashedon.result = NoResult)

\* C5: in a non-dry run of more than MAX_CONNECTIONS tests the sessions
\* created after the initial one are exactly one per MAX_CONNECTIONS launches,
\* and the connection count is the number of launches since the last renewal.
C5_OneRenewalPerMaxConnections ==
    (~dry /\ outputformat # "bboxes" /\ NumTests > MAX_CONNECTIONS) =>
        /\ sessioncount - 1 = next \div MAX_CONNECTIONS
        /\ connectioncount = next % MAX_CONNECTIONS

\* C13: a dry run over three cells (one test class, three layers) with
\* count = 1 sends no request, runs to its normal end and has then written
\* exactly one line for each of the three tests.
C13_DryRunThreeOutcomes ==
    (dry /\ outputformat # "bboxes" /\ cells = 3 /\ argcount = 1) =>
        /\ \A t \in DOMAIN threads : threads[t].sends = 0
        /\ RunOver => (pc = "done" /\ \A t \in 0..2 : Lines(t) = 1)

\* C15: with a non-positive --count or a non-positive --threads no test is
\* started and no line is written: the run fails before the dispatch begins.
C15_NonPositiveFailsFast ==
    (argcount <= 0 \/ argthreads <= 0) =>
        /\ next = 0
        /\ threads = <<>>
        /\ bboxlines = 0

\* C16: outputTest is called on the tests in the order in which the workers
\* put them on the queue: the tests reported so far are the first tests that
\* were enqueued, in the same order.
C16_ReportedInCompletionOrder ==
    /\ Len(reported) <= Len(enqueued)
    /\ \A n \in 1..Len(reported) : reported[n] = enqueued[n]

\* test 1 completed before test 0, both were reported and main() goes on
C16_Witness ==
    /\ argthreads = 2
    /\ enqueued = <<1, 0>>
    /\ reported = <<1, 0>>
    /\ Lines(0) = 1 /\ Lines(1) = 1
    /\ pc # "crashed"

\* the launch of test t made connectioncount reach MAX_CONNECTIONS
ThresholdLaunch(t) == (t + 1) % MAX_CONNECTIONS = 0

\* C17: a worker that is past the closing step of run() has closed the session
\* it was given if and only if its launch was the one that made the
\* connection count reach MAX_CONNECTIONS.
C17_ClosesIffThreshold ==
    \A t \in DOMAIN threads :
        threads[t].pc \in {"put", "release"} =>
            (threads[t].closes <=> ThresholdLaunch(t))

\* C18: in a run that is not dry, a worker that has sent its request has sent
\* it on the session it was started with, and no session is created besides
\* the ones main() creates (the initial one and one for each renewal).
C18_SendsOnSharedSession ==
    ~dry =>
        /\ \A t \in DOMAIN threads :
              threads[t].sends >= 1 => threads[t].local = threads[t].session
        /\ sessioncount = 1 + session[2]

\* C19: with --threads >= 1, a worker that is still executing its probe holds
\* a session that has not been closed and that is still the shared session
\* of main(): no session is closed or replaced while a worker executes on it.
C19_NoRotationWhileHeld ==
    argthreads >= 1 =>
        \A t \in DOMAIN threads :
            threads[t].pc \in {"execute", "retry"} =>
                /\ threads[t].session \notin closed
                /\ threads[t].session = session

\* C20: a worker sends its request at most twice; it sends a second time
\* exactly when the first send raised the busy signal, on the session of the
\* first send, and it does not send again when the second send fails.
C20_AtMostOneRetry ==
    \A t \in DOMAIN threads :
        LET w == threads[t] IN
        /\ w.sends <= 2
        /\ w.sends = 2 => (w.first = "busy" /\ w.retried = w.local)
        /\ (w.first = "busy" /\ w.pc # "retry") => w.sends = 2
        /\ w.pc = "retry" => (w.first = "busy" /\ w.sends = 1)

\* the second send failed as well and the worker went on to put its test
C20_Witness ==
    \E t \in DOMAIN threads :
        /\ threads[t].pc = "put"
        /\ threads[t].sends = 2
        /\ threads[t].first = "busy"
        /\ threads[t].retried = PrivateSession(t)
        /\ threads[t].result = NoResult

\* C21: with --threads 1 a test is started only after all tests before it
\* have been put on the queue, so the tests are enqueued and reported in the
\* order in which they were submitted.
C21_SequentialWithOneWorker ==
    (argthreads = 1 /\ outputformat # "bboxes") =>
        /\ Len(enqueued) >= next - 1
        /\ \A n \in 1..Len(enqueued) : enqueued[n] = n - 1
        /\ \A n \in 1..Len(reported) : reported[n] = n - 1

\* three tests were reported one after the other and a fourth is in flight
C21_Witness ==
    /\ argthreads = 1
    /\ reported = <<0, 1, 2>>
    /\ Lines(2) = 1
    /\ next = 4
    /\ 3 \in DOMAIN threads

\* the started workers that have not yet put their test on the queue
BeforePut == {t \in DOMAIN threads : threads[t].pc # "release"}

\* the tests that were put on the queue
EnqueuedTests == {enqueued[n] : n \in 1..Len(enqueued)}

\* C25: every started test is put on the queue exactly once, before its
\* worker gives back its slot: the free slots and the workers holding a slot
\* add up to --threads, and the started tests are those not yet enqueued,
\* those waiting in the queue and those handed to outputTest.
C25_SlotsAndTestsConserved ==
    /\ argthreads >= 1 => threadpool + Cardinality(InFlight) = argthreads
    /\ Cardinality(Launched) =
           Cardinality(BeforePut) + Len(testscompleted) + Len(reported)
    /\ EnqueuedTests = Launched \ BeforePut
    /\ Cardinality(EnqueuedTests) = Len(enqueued)

\* a failed probe was enqueued and still holds its slot, after an earlier
\* test was reported
C25_Witness ==
    /\ argthreads = 2
    /\ ~dry
    /\ threadpool = 1
    /\ Len(reported) = 1
    /\ Len(testscompleted) = 1
    /\ pc # "crashed"
    /\ \E t \in DOMAIN threads :
          /\ threads[t].pc = "release"
          /\ threads[t].first = "error"
          /\ threads[t].result = NoResult

(***************************************************************************)
(* Box                                                                     *)
(*                                                                         *)
(* Coordinates and lengths are fixed-point numbers: Unit stands for 1.0,   *)
(* so a value with up to MaxDigits fractional digits is a whole number of  *)
(* steps.  The arguments of randint are whole numbers.                     *)
(***************************************************************************)
RECURSIVE Pow10(_)
\* pow(10, digits)
Pow10(d) == IF d = 0 THEN 1 ELSE 10 * Pow10(d - 1)

Unit == Pow10(MaxDigits)

Min(a, b) == IF a <= b THEN a ELSE b
Max(a, b) == IF a >= b THEN a ELSE b
Min5(a, b, c, d, e) == Min(a, Min(b, Min(c, Min(d, e))))

\* int(v): truncation towards zero, the result again in fixed point
IntTrunc(v) == IF v >= 0 THEN (v \div Unit) * Unit ELSE -(((-v) \div Unit) * Unit)

\* random.randint(a, b) on whole numbers: empty when a > b (ValueError)
RandInt(a, b) == a..b

\* randint on whole numbers given in fixed point
RandIntFP(a, b) == {v * Unit : v \in RandInt(a \div Unit, b \div Unit)}

\* Box.contains
Contains(self, box) ==
    /\ box.lowerx >= self.lowerx
    /\ box.lowery >= self.lowery
    /\ box.upperx <= self.upperx
    /\ box.uppery <= self.uppery

\* Box.shiftX, Box.shiftY, Box.zoom
ShiftX(self, step) ==
    [self EXCEPT !.lowerx = self.lowerx + step, !.upperx = self.upperx + step]
ShiftY(self, step) ==
    [self EXCEPT !.lowery = self.lowery + step, !.uppery = self.uppery + step]
Zoom(self, step) ==
    Box(self.lowerx - step, self.lowery - step,
        self.upperx + step, self.uppery + step)

\* as RandomX, the least width not scaled by pow(10, digitsx)
NarrowRandomX(self, mw, digitsx) ==
    LET L == self.lowerx \div Unit
        H == self.upperx \div Unit
        m == mw \div Unit
        P == Pow10(digitsx)
        q == Unit \div P
    IN  IF digitsx # 0
        THEN UNION { { <<rs * q, ws * q>> : ws \in RandInt(m, H * P - rs) }
                     : rs \in RandInt(L, (H - m) * P) }
        ELSE UNION { { <<rx * Unit, w * Unit>> : w \in RandInt(m, H - rx) }
                     : rx \in RandInt(L, H - m) }

\* generateRandomSubbox, the x axis: the pairs <<randx, randwidth>> it can draw
\* with digitsx fractional digits
RandomX(self, mw, digitsx) ==
    LET L == self.lowerx \div Unit
        H == self.upperx \div Unit
        m == mw \div Unit
        P == Pow10(digitsx)
        q == Unit \div P
        \* randx /= pow(10, digitsx) and the correction of the lower edge
        Scaled(rs) == IF rs * q > self.upperx - mw
                      THEN rs * q - Unit - mw
                      ELSE rs * q
    IN  IF digitsx # 0
        THEN UNION { { <<Scaled(rs), ws * q>> : ws \in RandInt(m * P, H * P - rs) }
                     : rs \in RandInt(L, (H - m) * P) }
        ELSE UNION { { <<rx * Unit, w * Unit>> : w \in RandInt(m, H - rx) }
                     : rx \in RandInt(L, H - m) }

\* generateRandomSubbox, the y axis
RandomY(self, mh, digitsy) ==
    LET L == self.lowery \div Unit
        H == self.uppery \div Unit
        m == mh \div Unit
        P == Pow10(digitsy)
        q == Unit \div P
        Scaled(rs) == IF rs * q > self.uppery - mh
                      THEN rs * q - Unit - mh
                      ELSE rs * q
    IN  IF digitsy # 0
        THEN UNION { { <<Scaled(rs), hs * q>> : hs \in RandInt(m * P, H * P - rs) }
                     : rs \in RandInt(L, (H - m) * P) }
        ELSE UNION { { <<ry * Unit, h * Unit>> : h \in RandInt(m, H - ry) }
                     : ry \in RandInt(L, H - m) }

\* Box.generateRandomSubbox: the boxes it can return
GenerateRandomSubbox(self, mw, mh, maxdigits) ==
    { Box(x[1], y[1], x[1] + x[2], y[1] + y[2]) :
        x \in UNION { RandomX(self, mw, d) : d \in RandInt(0, maxdigits) },
        y \in UNION { RandomY(self, mh, d) : d \in RandInt(0, maxdigits) } }

\* can generateRandomSubbox end in the ValueError of randint on an empty range?
GenerateRandomSubboxRaises(self, mw, mh, maxdigits) ==
    \/ \E d \in RandInt(0, maxdigits) : RandomX(self, mw, d) = {}
    \/ \E d \in RandInt(0, maxdigits) : RandomY(self, mh, d) = {}

(***************************************************************************)
(* The generator tests: Init                                               *)
(***************************************************************************)
RandomBbox == "RandomBbox"
WalkingBbox == "WalkingBbox"
ZoomingBbox == "ZoomingBbox"

\* the dispatch variables while the generators are explored
DispatchIdle ==
    /\ dry = FALSE
    /\ outputformat = "none"
    /\ argthreads = 1
    /\ argcount = 1
    /\ cells = 1
    /\ pc = "off"
    /\ next = 0
    /\ threadpool = 0
    /\ connectioncount = 0
    /\ session = NoSession
    /\ sessioncount = 0
    /\ closed = {}
    /\ testscompleted = <<>>
    /\ output = <<>>
    /\ bboxlines = 0
    /\ crashedon = NoTest
    /\ threads = <<>>
    /\ lingering = 0
    /\ enqueued = <<>>
    /\ reported = <<>>

\* the extents explored are the squares with whole-numbered corners
Extents ==
    { Box(l * Unit, l * Unit, u * Unit, u * Unit) :
        l \in (-ExtentMin)..(ExtentMax - 1), u \in (-ExtentMin + 1)..ExtentMax }

WidthX(box) == box.upperx - box.lowerx
HeightY(box) == box.uppery - box.lowery

BoxInit ==
    /\ DispatchIdle
    /\ BatchIdle
    /\ gpc = "new"
    /\ testclass \in {RandomBbox, WalkingBbox, ZoomingBbox}
    /\ spatialextent \in Extents
    /\ WidthX(spatialextent) > 0 /\ HeightY(spatialextent) > 0
    /\ boundingbox = NoBox
    \* the minimal sizes fit in the extent
    /\ minwidth \in {m * Unit : m \in 1..(ExtentMin + ExtentMax)}
    /\ minwidth <= WidthX(spatialextent)
    /\ minheight \in {m * Unit : m \in 1..(ExtentMin + ExtentMax)}
    /\ minheight <= HeightY(spatialextent)
    /\ maxfractionaldigits \in 0..MaxDigits
    /\ minstepwidth \in {m * Unit : m \in 0..MaxStepWidth}
    /\ maxstepwidth \in {m * Unit : m \in 0..MaxStepWidth}
    /\ IF testclass = WalkingBbox
       THEN 0 < minstepwidth /\ minstepwidth <= maxstepwidth
       ELSE minstepwidth = 0 /\ maxstepwidth = 0
    /\ minboxwidth \in {m * Unit : m \in 0..MaxBoxWidth}
    /\ maxboxwidth \in {m * Unit : m \in 0..MaxBoxWidth}
    /\ IF testclass = ZoomingBbox
       THEN 0 < minboxwidth /\ minboxwidth <= maxboxwidth
       ELSE minboxwidth = 0 /\ maxboxwidth = 0
    /\ returned = NoBox
    /\ lastcall = NoCall
    /\ steps = 0

(***************************************************************************)
(* RandomBoundingBoxWMSTest                                                *)
(***************************************************************************)
\* generateRandomBoundingBox:
\* setBoundingBox(spatialextent.generateRandomSubbox(minwidth, minheight, ...))
GenerateRandomBoundingBox ==
    /\ gpc = "new"
    /\ \/ \E box \in GenerateRandomSubbox(spatialextent, minwidth, minheight,
                                          maxfractionaldigits) :
            /\ returned' = box
            /\ IF Contains(spatialextent, box)
               THEN /\ boundingbox' = box
                    /\ gpc' = "ready"
                    /\ lastcall' = [NoCall EXCEPT !.op = "generate"]
               ELSE \* setBoundingBox raises
                    /\ gpc' = "failed"
                    /\ lastcall' = [NoCall EXCEPT !.op = "generate", !.raised = TRUE]
                    /\ UNCHANGED boundingbox
       \/ /\ GenerateRandomSubboxRaises(spatialextent, minwidth, minheight,
                                        maxfractionaldigits)
          /\ gpc' = "failed"
          /\ lastcall' = [NoCall EXCEPT !.op = "generate", !.raised = TRUE]
          /\ UNCHANGED <<boundingbox, returned>>
    /\ UNCHANGED <<testclass, spatialextent, minwidth, minheight,
                   maxfractionaldigits, minstepwidth, maxstepwidth, minboxwidth,
                   maxboxwidth, steps>>
    /\ UNCHANGED <<dvars, bvars>>

(***************************************************************************)
(* WalkingBoundingBoxWMSTest                                               *)
(***************************************************************************)
\* an outcome of a call: the bounding box it leaves and whether it raised
Outcome(box, raised) == [box |-> box, raised |-> raised]

\* as StepDraws, the upper end not limited by the distance to the border
StepDrawsUnclamped(minstep, maxstep, dist) ==
    RandIntFP(Min(minstep, dist), maxstep)

\* randint(min(self.minstepwidth, maxx), min(self.maxstepwidth, maxx))
StepDraws(minstep, maxstep, dist) ==
    RandIntFP(Min(minstep, dist), Min(maxstep, dist))

\* the x half of moveBoundingBox
MoveX(box, extent, xstep, minstep, maxstep) ==
    IF xstep = 0
    THEN UNION { LET maxx == IntTrunc(IF direction = 1
                                 THEN extent.upperx - box.upperx
                                 ELSE box.lowerx - extent.lowerx)
                     draws == StepDraws(minstep, maxstep, maxx)
                 IN  IF draws = {}
                     THEN {Outcome(box, TRUE)}
                     ELSE { Outcome(ShiftX(box, IF direction = 1 THEN s ELSE -s),
                                    FALSE) : s \in draws }
                 : direction \in RandInt(0, 1) }
    ELSE IF Contains(extent, ShiftX(box, xstep))
         THEN {Outcome(ShiftX(box, xstep), FALSE)}
         ELSE {Outcome(ShiftX(ShiftX(box, xstep), -xstep), TRUE)}

\* the y half of moveBoundingBox
MoveY(box, extent, ystep, minstep, maxstep) ==
    IF ystep = 0
    THEN UNION { LET maxy == IntTrunc(IF direction = 1
                                 THEN extent.uppery - box.uppery
                                 ELSE box.lowery - extent.lowery)
                     draws == StepDraws(minstep, maxstep, maxy)
                 IN  IF draws = {}
                     THEN {Outcome(box, TRUE)}
                     ELSE { Outcome(ShiftY(box, IF direction = 1 THEN s ELSE -s),
                                    FALSE) : s \in draws }
                 : direction \in RandInt(0, 1) }
    ELSE IF Contains(extent, ShiftY(box, ystep))
         THEN {Outcome(ShiftY(box, ystep), FALSE)}
         ELSE {Outcome(ShiftY(ShiftY(box, ystep), -ystep), TRUE)}

\* moveBoundingBox(xstep, ystep): the outcomes it can have
MoveOutcomes(box, extent, xstep, ystep, minstep, maxstep) ==
    UNION { IF ox.raised
            THEN {ox}
            ELSE MoveY(ox.box, extent, ystep, minstep, maxstep)
            : ox \in MoveX(box, extent, xstep, minstep, maxstep) }

ExplicitSteps == {s * Unit : s \in (-MaxExplicit)..MaxExplicit}

MoveBoundingBox(xstep, ystep) ==
    /\ gpc = "ready"
    /\ testclass = WalkingBbox
    /\ steps < MaxSteps
    /\ \E o \in MoveOutcomes(boundingbox, spatialextent, xstep, ystep,
                             minstepwidth, maxstepwidth) :
          /\ boundingbox' = o.box
          /\ lastcall' = [op |-> "move", xstep |-> xstep, ystep |-> ystep,
                          raised |-> o.raised]
    /\ steps' = steps + 1
    /\ returned' = NoBox
    /\ UNCHANGED <<gpc, testclass, spatialextent, minwidth, minheight,
                   maxfractionaldigits, minstepwidth, maxstepwidth, minboxwidth,
                   maxboxwidth>>
    /\ UNCHANGED <<dvars, bvars>>

(***************************************************************************)
(* ZoomingBoxWMSTest                                                       *)
(***************************************************************************)
\* zoomBoundingBox(step): the outcomes it can have
ZoomOutcomes(box, extent, step, minbox, maxbox) ==
    IF step = 0
    THEN LET maxstep == IntTrunc(Min5(maxbox,
                                 extent.upperx - box.upperx,
                                 extent.uppery - box.uppery,
                                 box.lowerx - extent.lowerx,
                                 box.lowery - extent.lowery))
         IN  { Outcome(Zoom(box, s), FALSE) :
                 s \in RandIntFP(Min(minbox, maxstep), Max(minbox, maxstep)) }
    ELSE IF Contains(extent, Zoom(box, step))
         THEN {Outcome(Zoom(box, step), FALSE)}
         ELSE {Outcome(Zoom(Zoom(box, step), -step), TRUE)}

ZoomBoundingBox(step) ==
    /\ gpc = "ready"
    /\ testclass = ZoomingBbox
    /\ steps < MaxSteps
    /\ \E o \in ZoomOutcomes(boundingbox, spatialextent, step,
                             minboxwidth, maxboxwidth) :
          /\ boundingbox' = o.box
          /\ lastcall' = [op |-> "zoom", xstep |-> step, ystep |-> step,
                          raised |-> o.raised]
    /\ steps' = steps + 1
    /\ returned' = NoBox
    /\ UNCHANGED <<gpc, testclass, spatialextent, minwidth, minheight,
                   maxfractionaldigits, minstepwidth, maxstepwidth, minboxwidth,
                   maxboxwidth>>
    /\ UNCHANGED <<dvars, bvars>>

BoxNext ==
    \/ GenerateRandomBoundingBox
    \/ \E xstep \in ExplicitSteps, ystep \in ExplicitSteps :
          MoveBoundingBox(xstep, ystep)
    \/ \E step \in ExplicitSteps : ZoomBoundingBox(step)

SpecBox == BoxInit /\ [][BoxNext]_vars

(***************************************************************************)
(* Properties of the box generators                                        *)
(***************************************************************************)
\* C6: every box returned by generateRandomSubbox lies inside the extent it
\* was drawn from, on all four edges.
C6_SubboxInsideExtent ==
    returned # NoBox => Contains(spatialextent, returned)

C8_WalkStaysInside ==
    (testclass = WalkingBbox /\ gpc = "ready") =>
        Contains(spatialextent, boundingbox)

\* two steps were taken, the last one automatic on both axes, and the box
\* has reached the upper x border of an extent it does not fill
C8_Witness ==
    /\ testclass = WalkingBbox
    /\ steps = 2
    /\ lastcall.op = "move" /\ lastcall.xstep = 0 /\ lastcall.ystep = 0
    /\ ~lastcall.raised
    /\ boundingbox.upperx = spatialextent.upperx
    /\ boundingbox.lowerx % Unit # 0
    /\ WidthX(boundingbox) < WidthX(spatialextent)

\* C9: a call of moveBoundingBox that raises because of an explicit step
\* leaves all four coordinates of the bounding box as they were.
C9_FailedMoveLeavesBox ==
    [][(lastcall'.op = "move" /\ lastcall'.raised /\ steps' = steps + 1)
          => boundingbox' = boundingbox]_vars

\* C10: the bounding box of a zooming test is inside the spatial extent after
\* every automatic call of zoomBoundingBox.
C10_ZoomStaysInside ==
    (testclass = ZoomingBbox /\ lastcall.op = "zoom" /\ lastcall.xstep = 0) =>
        Contains(spatialextent, boundingbox)

\* C11: after a call of zoomBoundingBox that was not an explicitly requested
\* shrink (the step was chosen automatically or given as an expansion), the
\* bounding box is at least minboxwidth wide.
C11_ZoomKeepsMinBoxWidth ==
    ( /\ testclass = ZoomingBbox
      /\ lastcall.op = "zoom"
      /\ lastcall.xstep >= 0
      /\ ~lastcall.raised ) =>
        WidthX(boundingbox) >= minboxwidth

\* C12: after every accepted operation on the bounding box (a generation, a
\* move or a zoom that did not raise, with automatic or explicit steps) the
\* box is not inverted: lowerx <= upperx and lowery <= uppery.
C12_NeverInverted ==
    (gpc = "ready" /\ ~lastcall.raised) =>
        /\ boundingbox.lowerx <= boundingbox.upperx
        /\ boundingbox.lowery <= boundingbox.uppery

(***************************************************************************)
(* main(): building tests[i] for one test class                            *)
(*                                                                         *)
(* A test is a record whose boundingbox is a reference into boxes, so that *)
(* two tests that share one Box object can be told from two tests with     *)
(* equal boxes.                                                            *)
(***************************************************************************)
\* as DeepCopy, the Box of the copy not taken from the test that is copied
DeepCopyLosesBox(heap, test) ==
    [test |-> [test EXCEPT !.boundingbox = Len(heap) + 1],
     heap |-> Append(heap, spatialextent)]

\* as DeepCopy, the copy referring to the Box object of the test copied
ShallowCopy(heap, test) == [test |-> test, heap |-> heap]

\* WMSTest.clone: deepcopy(self) copies the Box object the test refers to
DeepCopy(heap, test) ==
    [test |-> [test EXCEPT !.boundingbox = Len(heap) + 1],
     heap |-> Append(heap, heap[test.boundingbox])]

\* the tests built are explored with whole-numbered boxes
BatchInit ==
    /\ dry = FALSE
    /\ outputformat = "none"
    /\ argthreads = 1
    /\ argcount \in 0..(MaxSteps + 1)
    /\ cells \in 1..MaxLayers
    /\ pc = "off"
    /\ next = 0
    /\ threadpool = 0
    /\ connectioncount = 0
    /\ session = NoSession
    /\ sessioncount = 0
    /\ closed = {}
    /\ testscompleted = <<>>
    /\ output = <<>>
    /\ bboxlines = 0
    /\ crashedon = NoTest
    /\ threads = <<>>
    /\ lingering = 0
    /\ enqueued = <<>>
    /\ reported = <<>>
    /\ gpc = "off"
    /\ testclass \in {RandomBbox, WalkingBbox, ZoomingBbox}
    /\ spatialextent \in Extents
    /\ WidthX(spatialextent) > 0 /\ HeightY(spatialextent) > 0
    /\ boundingbox = NoBox
    /\ minwidth \in {m * Unit : m \in 1..(ExtentMin + ExtentMax)}
    /\ minwidth <= WidthX(spatialextent)
    /\ minheight = minwidth
    /\ maxfractionaldigits = 0
    /\ minstepwidth \in {m * Unit : m \in 0..MaxStepWidth}
    /\ maxstepwidth \in {m * Unit : m \in 0..MaxStepWidth}
    /\ IF testclass = WalkingBbox
       THEN 0 < minstepwidth /\ minstepwidth <= maxstepwidth
       ELSE minstepwidth = 0 /\ maxstepwidth = 0
    /\ minboxwidth \in {m * Unit : m \in 0..MaxBoxWidth}
    /\ maxboxwidth \in {m * Unit : m \in 0..MaxBoxWidth}
    /\ IF testclass = ZoomingBbox
       THEN 0 < minboxwidth /\ minboxwidth <= maxboxwidth
       ELSE minboxwidth = 0 /\ maxboxwidth = 0
    /\ returned = NoBox
    /\ lastcall = NoCall
    /\ steps = 0
    /\ bpc = "build"
    \* tests = [[[] for l in layers] for t in testclasses]
    /\ tests = [j \in 0..(cells - 1) |-> <<>>]
    /\ boxes = <<>>

\* the value of the Box a test refers to
BoxOf(test) == boxes[test.boundingbox]

\* RandomBoundingBoxWMSTest(wmsserver, layers[0], width, height), and likewise
\* for the walking and the zooming class: the next element of tests[i][0]
\* that is made by a constructor
NewTest ==
    /\ bpc = "build"
    /\ Len(tests[0]) < (IF testclass = RandomBbox THEN count ELSE 1)
    /\ \/ \E box \in GenerateRandomSubbox(spatialextent, minwidth, minheight,
                                          maxfractionaldigits) :
            IF Contains(spatialextent, box)
            THEN /\ boxes' = Append(boxes, box)
                 /\ tests' = [tests EXCEPT ![0] =
                                 Append(@, [id |-> testclass, layers |-> 0,
                                            boundingbox |-> Len(boxes) + 1])]
                 /\ UNCHANGED bpc
            ELSE \* setBoundingBox raises
                 /\ bpc' = "failed"
                 /\ UNCHANGED <<tests, boxes>>
       \/ /\ GenerateRandomSubboxRaises(spatialextent, minwidth, minheight,
                                        maxfractionaldigits)
          /\ bpc' = "failed"
          /\ UNCHANGED <<tests, boxes>>
    /\ UNCHANGED <<dvars, gvars>>

\* tests[i][0] += [tests[i][0][c].clone().moveBoundingBox()], and likewise
\* with zoomBoundingBox()
Evolve ==
    /\ bpc = "build"
    /\ testclass \in {WalkingBbox, ZoomingBbox}
    /\ 1 <= Len(tests[0]) /\ Len(tests[0]) < count
    /\ LET copy == DeepCopy(boxes, tests[0][Len(tests[0])])
           box == copy.heap[copy.test.boundingbox]
           outcomes == IF testclass = WalkingBbox
                       THEN MoveOutcomes(box, spatialextent, 0, 0,
                                         minstepwidth, maxstepwidth)
                       ELSE ZoomOutcomes(box, spatialextent, 0,
                                         minboxwidth, maxboxwidth)
       IN  \E o \in outcomes :
             IF o.raised
             THEN /\ bpc' = "failed"
                  /\ boxes' = [copy.heap EXCEPT ![copy.test.boundingbox] = o.box]
                  /\ UNCHANGED tests
             ELSE /\ boxes' = [copy.heap EXCEPT ![copy.test.boundingbox] = o.box]
                  /\ tests' = [tests EXCEPT ![0] = Append(@, copy.test)]
                  /\ UNCHANGED bpc
    /\ UNCHANGED <<dvars, gvars>>

RECURSIVE CloneAll(_, _, _, _)
\* [tests[i][0][c].clone().setLayers(layers[j]) for c in range(count)], from
\* element c on: the list built and the Box objects after it
CloneAll(heap, first, j, c) ==
    IF c > Len(first)
    THEN [list |-> <<>>, heap |-> heap]
    ELSE LET copy == DeepCopy(heap, first[c])
             rest == CloneAll(copy.heap, first, j, c + 1)
         IN  [list |-> <<[copy.test EXCEPT !.layers = j]>> \o rest.list,
              heap |-> rest.heap]

\* tests[i][j] = [... for c in range(count)] for one j >= 1
CloneLayer(j) ==
    /\ bpc = "build"
    /\ Len(tests[0]) = count
    /\ j \in DOMAIN tests /\ j >= 1
    /\ tests[j] = <<>>
    /\ \A k \in 1..(j - 1) : tests[k] # <<>>
    /\ LET built == CloneAll(boxes, tests[0], j, 1) IN
       /\ tests' = [tests EXCEPT ![j] = built.list]
       /\ boxes' = built.heap
    /\ UNCHANGED bpc
    /\ UNCHANGED <<dvars, gvars>>

BatchNext ==
    \/ NewTest
    \/ Evolve
    \/ \E j \in 1..MaxLayers : CloneLayer(j)

SpecBatch == BatchInit /\ [][BatchNext]_vars

(***************************************************************************)
(* Properties of the batch                                                 *)
(***************************************************************************)
\* tests[i] is complete
Built == bpc = "build" /\ \A j \in DOMAIN tests : Len(tests[j]) = count

\* C14: in the batch, the test of layer j and repetition c has the box of the
\* test of the first layer and repetition c, and differs from that test in the
\* layer only.
C14_LayersShareBoxes ==
    bpc # "off" =>
        \A j \in DOMAIN tests : \A c \in DOMAIN tests[j] :
            /\ BoxOf(tests[j][c]) = BoxOf(tests[0][c])
            /\ tests[j][c].id = tests[0][c].id
            /\ tests[j][c].layers = j

\* a walk of three different boxes was built for three layers
C14_Witness ==
    /\ Built
    /\ testclass = WalkingBbox
    /\ cells = 3 /\ count = 3
    /\ BoxOf(tests[2][1]) # BoxOf(tests[2][2])
    /\ BoxOf(tests[2][2]) # BoxOf(tests[2][3])
    /\ BoxOf(tests[2][3]) # spatialextent

\* no two tests of the batch refer to the same Box object
NoAlias ==
    \A j1 \in DOMAIN tests : \A j2 \in DOMAIN tests :
        \A c1 \in DOMAIN tests[j1] : \A c2 \in DOMAIN tests[j2] :
            <<j1, c1>> # <<j2, c2>> =>
                tests[j1][c1].boundingbox # tests[j2][c2].boundingbox

\* box is what one automatic moveBoundingBox() or zoomBoundingBox() can make
\* of a Box equal to prev
EvolvedFrom(prev, box) ==
    \E o \in (IF testclass = WalkingBbox
              THEN MoveOutcomes(prev, spatialextent, 0, 0,
                                minstepwidth, maxstepwidth)
              ELSE ZoomOutcomes(prev, spatialextent, 0,
                                minboxwidth, maxboxwidth)) :
        ~o.raised /\ o.box = box

\* in a walking or zooming batch each repetition is one step from the one before
Chain ==
    testclass \in {WalkingBbox, ZoomingBbox} =>
        \A c \in 1..(Len(tests[0]) - 1) :
            EvolvedFrom(BoxOf(tests[0][c]), BoxOf(tests[0][c + 1]))

\* C22: every step of the building leaves the Box objects that exist as they
\* are, and after it no two tests of the batch refer to the same Box object
\* and, in a walking or zooming batch, the box of repetition c+1 is one
\* evolution step from the box of repetition c.
C22_EvolutionOnCopies ==
    [][ /\ \A r \in DOMAIN boxes : boxes'[r] = boxes[r]
        /\ NoAlias'
        /\ Chain' ]_vars

\* a zooming batch of three different boxes was built for two layers
C22_Witness ==
    /\ Built
    /\ testclass = ZoomingBbox
    /\ cells = 2 /\ count = 3
    /\ BoxOf(tests[0][1]) # BoxOf(tests[0][2])
    /\ BoxOf(tests[0][2]) # BoxOf(tests[0][3])
    /\ BoxOf(tests[0][1]) # BoxOf(tests[0][3])

\* the shift d of one axis is 0 or of a magnitude within minstepwidth and
\* maxstepwidth, and not beyond the distance to the border it moves towards
StepWithinLimits(d, roomup, roomdown) ==
    /\ \/ d = 0
       \/ minstepwidth <= d /\ d <= maxstepwidth
       \/ minstepwidth <= -d /\ -d <= maxstepwidth
    /\ d > 0 => d <= roomup
    /\ d < 0 => -d <= roomdown

\* C23: in a call of moveBoundingBox the shift of an axis whose step is chosen
\* automatically is 0 or of a magnitude in [minstepwidth, maxstepwidth], and
\* it does not exceed the distance from the box to the border of the extent
\* on the side it moves to.
C23_AutomaticStepWithinLimits ==
    [][ (lastcall'.op = "move" /\ steps' = steps + 1) =>
          /\ lastcall'.xstep = 0 =>
                StepWithinLimits(boundingbox'.lowerx - boundingbox.lowerx,
                                 spatialextent.upperx - boundingbox.upperx,
                                 boundingbox.lowerx - spatialextent.lowerx)
          /\ lastcall'.ystep = 0 =>
                StepWithinLimits(boundingbox'.lowery - boundingbox.lowery,
                                 spatialextent.uppery - boundingbox.uppery,
                                 boundingbox.lowery - spatialextent.lowery) ]_vars

\* the largest zoom step that keeps box inside extent and within maxboxwidth
MaxLegalZoom(box, extent) ==
    Min5(maxboxwidth,
         extent.upperx - box.upperx, extent.uppery - box.uppery,
         box.lowerx - extent.lowerx, box.lowery - extent.lowery)

\* C24: the step an automatic call of zoomBoundingBox applies is not negative
\* and lies between minboxwidth and the largest step that keeps the box inside
\* the spatial extent.
C24_AutomaticZoomNotNegative ==
    [][ (lastcall'.op = "zoom" /\ lastcall'.xstep = 0 /\ steps' = steps + 1) =>
          LET step == boundingbox.lowerx - boundingbox'.lowerx IN
          /\ step >= 0
          /\ minboxwidth <= step
          /\ step <= MaxLegalZoom(boundingbox, spatialextent) ]_vars

====
